---- MODULE Spec2Model ----
(***************************************************************************)
(* Model of the University Data MCP server (server.js): five operations    *)
(* that validate a request, issue one call to the upstream catalog and     *)
(* wrap the outcome in the {success, data | error} envelope.               *)
(*                                                                         *)
(* JavaScript values are tagged records, so that the string "5" and the    *)
(* number 5 are different values; JavaScript strings are TLA+ strings.     *)
(* An object (a catalog record, a filter) is the sequence of its           *)
(* <<key, value>> entries in own-property order.                           *)
(***************************************************************************)
EXTENDS Integers, Sequences, FiniteSets, TLC

VARIABLES pc, op, req, outbound, upstream, replies

vars == <<pc, op, req, outbound, upstream, replies>>

----------------------------------------------------------------------------
(* Bounds of the model *)

\* longest results array an upstream payload carries
MaxResults == 2
\* most entries a statistics filter object has
MaxFilter == 2

(* Constants of the program *)

MaxLimit == 100
DefaultLimit == 10
DefaultOffset == 0

----------------------------------------------------------------------------
(* JavaScript values *)

Undef == [t |-> "undefined"]
Null == [t |-> "null"]
NaN == [t |-> "number", nan |-> TRUE]
Str(s) == [t |-> "string", s |-> s]
Num(n) == [t |-> "number", n |-> n]
Bool(b) == [t |-> "boolean", b |-> b]
\* an object whose entries are in own-property order (a record, a filter)
Obj(entries) == [t |-> "object", entries |-> entries]

\* typeof v
TypeOf(v) ==
  IF v.t = "null" THEN "object" ELSE v.t

\* the truthiness of v, as `if (v)`, `!v` and `v || d` test it
Truthy(v) ==
  CASE v.t = "undefined" -> FALSE
    [] v.t = "null" -> FALSE
    [] v.t = "string" -> v.s # ""
    [] v.t = "number" -> v # NaN /\ v.n # 0
    [] v.t = "boolean" -> v.b
    [] OTHER -> TRUE

\* a destructuring default `{ x = d } = obj`, which applies to undefined only
Default(v, d) == IF v = Undef THEN d ELSE v

\* v || d
OrElse(v, d) == IF Truthy(v) THEN v ELSE d

Digits == "0123456789"

CharAt(s, i) == SubSeq(s, i, i)

RECURSIVE NumToStr(_)
\* the decimal numeral of a natural number, as String(n) writes it
NumToStr(n) ==
  IF n < 10 THEN CharAt(Digits, n + 1)
  ELSE NumToStr(n \div 10) \o CharAt(Digits, (n % 10) + 1)

\* `${v}` in a template literal
ToStr(v) ==
  CASE v.t = "string" -> v.s
    [] v.t = "number" -> IF v = NaN THEN "NaN" ELSE NumToStr(v.n)
    [] v.t = "boolean" -> IF v.b THEN "true" ELSE "false"
    [] v.t = "object" -> "[object Object]"
    [] OTHER -> v.t

DigitValue(c) == CHOOSE d \in 0..9 : CharAt(Digits, d + 1) = c

IsDigit(c) == \E d \in 0..9 : CharAt(Digits, d + 1) = c

RECURSIVE DigitsValue(_)
\* the value of a non-empty string of decimal digits
DigitsValue(s) ==
  IF Len(s) = 1 THEN DigitValue(s)
  ELSE 10 * DigitsValue(SubSeq(s, 1, Len(s) - 1)) + DigitValue(CharAt(s, Len(s)))

\* Number(s) for a string: the empty string is 0, a string of decimal digits
\* is its value, and every other string of the model is NaN (the model has
\* no signed, fractional, exponent, hexadecimal or space-padded numerals)
StrToNumber(s) ==
  IF s = "" THEN Num(0)
  ELSE IF \A i \in 1..Len(s) : IsDigit(CharAt(s, i)) THEN Num(DigitsValue(s))
  ELSE NaN

\* Number(v)
ToNumber(v) ==
  CASE v.t = "number" -> v
    [] v.t = "string" -> StrToNumber(v.s)
    [] v.t = "boolean" -> IF v.b THEN Num(1) ELSE Num(0)
    [] v.t = "null" -> Num(0)
    [] OTHER -> NaN

\* v > n for a number n: v is converted to a number, and NaN compares false
GreaterThan(v, n) ==
  LET x == ToNumber(v) IN x # NaN /\ x.n > n

\* s.includes(sub)
Includes(s, sub) ==
  \E i \in 1..(Len(s) - Len(sub) + 1) : SubSeq(s, i, i + Len(sub) - 1) = sub

RECURSIVE ReplaceAll(_, _, _)
\* s.replace(/c/g, d) for a one-character pattern c
ReplaceAll(s, c, d) ==
  IF s = "" THEN ""
  ELSE (IF CharAt(s, 1) = c THEN d ELSE CharAt(s, 1))
         \o ReplaceAll(SubSeq(s, 2, Len(s)), c, d)

RECURSIVE Join(_, _)
\* parts.join(sep)
Join(parts, sep) ==
  IF Len(parts) = 0 THEN ""
  ELSE IF Len(parts) = 1 THEN parts[1]
  ELSE parts[1] \o sep \o Join(Tail(parts), sep)

RECURSIVE SeqsUpTo(_, _)
\* the sequences over S of length at most n
SeqsUpTo(S, n) ==
  IF n = 0 THEN {<<>>}
  ELSE LET shorter == SeqsUpTo(S, n - 1)
       IN shorter \cup {Append(q, x) : q \in shorter, x \in S}

----------------------------------------------------------------------------
(* Values the requests and the upstream catalog are drawn from *)

RecFoo ==
  Obj(<< <<"name", Str("Foo U")>>,
         <<"enrollment_date", Str("2020-01-01")>>,
         <<"objectid", Str("5")>> >>)

RecBar ==
  Obj(<< <<"update_time", Num(7)>>,
         <<"is_public", Bool(TRUE)>>,
         <<"website", Null>>,
         <<"zip_code", Str("")>>,
         <<"geo_point_2d", Obj(<<>>)>> >>)

RecBaz ==
  Obj(<< <<"population", Num(1200)>>, <<"state", Str("CA")>> >>)

Records == {RecFoo, RecBar, RecBaz}

Arr(items) == [t |-> "array", items |-> items]

\* the payloads of a 2xx upstream answer: {total_count, results}, either of
\* which the upstream may leave out
Payloads ==
  [total_count : {Undef, Num(0), Num(712)},
   results : {Undef} \cup {Arr(q) : q \in SeqsUpTo(Records, MaxResults)}]

\* the response an axios error carries: its status and its data.message
ErrorResponses ==
  [status : {403, 404, 503},
   message : {Undef, Str(""), Str("upstream refused")}]

\* what awaiting axios.get yields: a response, or a thrown error that
\* carries the upstream's response unless the call failed in transport
Outcomes ==
  {[kind |-> "ok", data |-> d] : d \in Payloads}
    \cup {[kind |-> "error", response |-> r] : r \in ErrorResponses \cup {Undef}}

SearchBodies ==
  [query : {Undef, Str(""), Str("tech")},
   state : {Undef, Str(""), Str("CA")},
   city : {Undef, Str(""), Str("Davis")},
   limit : {Undef, Num(5), Num(MaxLimit), Num(MaxLimit + 1)},
   offset : {Undef, Num(20)}]

\* req.query of the two lookups: the parameter is absent, empty or set
LookupValues == {Undef, Str(""), Str("42"), Str("Foo U")}

FilterEntries ==
  {<<"state", Str("CA")>>, <<"population", Num(1200)>>, <<"type", Str("1")>>}

\* an object has each key once
DistinctKeys(entries) ==
  \A i, j \in 1..Len(entries) : entries[i][1] = entries[j][1] => i = j

Filters ==
  {Undef} \cup {Obj(q) : q \in {e \in SeqsUpTo(FilterEntries, MaxFilter) : DistinctKeys(e)}}

StatisticsBodies ==
  [field : {Undef, Str(""), Str("population"), Str("objectid")},
   aggregation : {Undef, Str("count"), Str("sum"), Str("avg"), Str("min"),
                  Str("max"), Str("median")},
   groupBy : {Undef, Str(""), Str("state")},
   filter : Filters]

----------------------------------------------------------------------------
(* The response envelope *)

\* res.status(http).json(body); res.json(body) alone replies 200
Reply(http, body) == [http |-> http, body |-> body]

formatError(message, status) ==
  [success |-> FALSE, error |-> [message |-> message, status |-> status]]

\* formatError(message) with the default status = 400
formatError400(message) == formatError(message, Num(400))

\* error.response?.data?.message
ErrMessage(error) ==
  IF error.response = Undef THEN Undef ELSE error.response.message

\* error.response?.status
ErrStatus(error) ==
  IF error.response = Undef THEN Undef ELSE Num(error.response.status)

\* the catch block when the upstream's message is dropped
CatchReplyGenericOnly(error, generic) ==
  Reply(500, formatError(Str(generic), OrElse(ErrStatus(error), Num(500))))

\* the catch block the operations share but for their generic message
CatchReply(error, generic) ==
  Reply(500, formatError(OrElse(ErrMessage(error), Str(generic)),
                         OrElse(ErrStatus(error), Num(500))))

\* axios leaves a parameter whose value is undefined or null out of the query
AxiosParams(p) ==
  [k \in {x \in DOMAIN p : p[x] # Undef /\ p[x] # Null} |-> p[k]]

\* response.data.results && response.data.results.length > 0
HasResults(data) ==
  data.results # Undef /\ Len(data.results.items) > 0

----------------------------------------------------------------------------
(* POST /search *)

\* the destructuring of req.body with its defaults
SearchInputs(body) ==
  [query |-> Default(body.query, Str("")),
   state |-> Default(body.state, Str("")),
   city |-> Default(body.city, Str("")),
   limit |-> Default(body.limit, Num(DefaultLimit)),
   offset |-> Default(body.offset, Num(DefaultOffset))]

\* the limit check off by one
SearchRejectsOffByOne(in) == GreaterThan(in.limit, MaxLimit + 1)

\* if (limit > 100)
SearchRejects(in) == GreaterThan(in.limit, MaxLimit)

\* the validation: the reply of a rejected request, else Undef
SearchRejection(in) ==
  IF SearchRejects(in)
    THEN Reply(400, formatError400(Str("Limit cannot exceed 100")))
    ELSE Undef

\* the whereClause array: the state clause, then the city clause
SearchClauses(in) ==
  (IF Truthy(in.state) THEN <<"state = '" \o ToStr(in.state) \o "'">> ELSE <<>>)
    \o (IF Truthy(in.city) THEN <<"city = '" \o ToStr(in.city) \o "'">> ELSE <<>>)

\* the where parameter when the clauses are joined without the length test
SearchWhereAlwaysJoined(in) == Str(Join(SearchClauses(in), " AND "))

\* whereClause.length > 0 ? whereClause.join(' AND ') : undefined
SearchWhere(in) ==
  IF Len(SearchClauses(in)) > 0 THEN Str(Join(SearchClauses(in), " AND "))
  ELSE Undef

\* the params object: limit, offset and where, and q when query is set
SearchParams(in) ==
  LET params == [limit |-> in.limit, offset |-> in.offset, where |-> SearchWhere(in)]
  IN IF Truthy(in.query) THEN params @@ [q |-> in.query] ELSE params

\* the success envelope with offset and limit swapped in the metadata
SearchSuccessSwapped(in, data) ==
  [success |-> TRUE,
   data |-> data,
   metadata |-> [total |-> data.total_count,
                 offset |-> in.limit,
                 limit |-> in.offset,
                 query_parameters |->
                   [query |-> in.query, state |-> in.state, city |-> in.city]]]

SearchSuccess(in, data) ==
  [success |-> TRUE,
   data |-> data,
   metadata |-> [total |-> data.total_count,
                 offset |-> in.offset,
                 limit |-> in.limit,
                 query_parameters |->
                   [query |-> in.query, state |-> in.state, city |-> in.city]]]

\* what the handler does once axios.get has settled
SearchRespond(body, out) ==
  IF out.kind = "ok" THEN Reply(200, SearchSuccess(SearchInputs(body), out.data))
  ELSE CatchReply(out, "Failed to search universities")

----------------------------------------------------------------------------
(* GET /getUniversity and GET /getUniversityByName *)

\* if (!id) and if (!name): the reply of a rejected request, else Undef
LookupRejection(value, message) ==
  IF ~Truthy(value) THEN Reply(400, formatError400(Str(message))) ELSE Undef

\* { where: `<column> = '<value>'`, limit: 1 }
LookupParams(column, value) ==
  [where |-> Str(column \o " = '" \o ToStr(value) \o "'"), limit |-> Num(1)]

\* the lookup when the not-found envelope is sent without its status
LookupFoundNo404(data) ==
  IF HasResults(data)
    THEN Reply(200, [success |-> TRUE, data |-> data.results.items[1]])
    ELSE Reply(200, formatError(Str("University not found"), Num(404)))

\* the first record of results, or 404 when there is none
LookupFound(data) ==
  IF HasResults(data)
    THEN Reply(200, [success |-> TRUE, data |-> data.results.items[1]])
    ELSE Reply(404, formatError(Str("University not found"), Num(404)))

\* the catch block of /getUniversity, which handles 404 specifically
GetUniversityCatch(error) ==
  IF ErrStatus(error) = Num(404)
    THEN Reply(404, formatError(Str("University not found"), Num(404)))
    ELSE CatchReply(error, "Failed to fetch university details")

GetUniversityRespond(out) ==
  IF out.kind = "ok" THEN LookupFound(out.data) ELSE GetUniversityCatch(out)

GetUniversityByNameRespond(out) ==
  IF out.kind = "ok" THEN LookupFound(out.data)
  ELSE CatchReply(out, "Failed to fetch university details")

----------------------------------------------------------------------------
(* GET /getFields *)

\* typeof value, made 'date' by the key's name, else 'number' by Number(value)
InferType(key, value) ==
  IF Includes(key, "date") \/ Includes(key, "time") THEN "date"
  ELSE IF ToNumber(value) # NaN THEN "number"
  ELSE TypeOf(value)

FieldDescriptor(key, value) ==
  [name |-> key, type |-> InferType(key, value),
   description |-> ReplaceAll(key, "_", " ")]

\* Object.keys(sampleRecord).map(...)
Fields(sampleRecord) ==
  [i \in 1..Len(sampleRecord.entries) |->
     FieldDescriptor(sampleRecord.entries[i][1], sampleRecord.entries[i][2])]

\* throw new Error("No sample records found to determine fields"): an error
\* without a response, caught by the handler's own catch block
NoSampleError == [kind |-> "error", response |-> Undef]

\* field discovery when the failure of an empty sample is sent without a status
GetFieldsRespondNoStatus(out) ==
  IF out.kind = "ok"
    THEN IF HasResults(out.data)
           THEN Reply(200, [success |-> TRUE,
                            data |-> Arr(Fields(out.data.results.items[1]))])
           ELSE Reply(200, formatError(Str("Failed to fetch dataset fields"), Num(500)))
    ELSE CatchReply(out, "Failed to fetch dataset fields")

GetFieldsRespond(out) ==
  IF out.kind = "ok"
    THEN IF HasResults(out.data)
           THEN Reply(200, [success |-> TRUE,
                            data |-> Arr(Fields(out.data.results.items[1]))])
           ELSE CatchReply(NoSampleError, "Failed to fetch dataset fields")
    ELSE CatchReply(out, "Failed to fetch dataset fields")

----------------------------------------------------------------------------
(* POST /statistics *)

validAggregations == <<"count", "sum", "avg", "min", "max">>

\* validAggregations.includes(aggregation), a strict comparison
IsValidAggregation(aggregation) ==
  aggregation.t = "string"
    /\ \E i \in 1..Len(validAggregations) : validAggregations[i] = aggregation.s

\* the validation when a count is let through without a field
StatisticsRejectionCountNeedsNoField(body) ==
  IF (~Truthy(body.field) /\ body.aggregation # Str("count"))
       \/ ~Truthy(body.aggregation)
    THEN Reply(400, formatError400(Str("Field and aggregation are required")))
  ELSE IF ~IsValidAggregation(body.aggregation)
    THEN Reply(400, formatError400(Str("Invalid aggregation. Must be one of: "
                                         \o Join(validAggregations, ", "))))
  ELSE Undef

\* the two validations, in order: the reply of a rejected body, else Undef
StatisticsRejection(body) ==
  IF ~Truthy(body.field) \/ ~Truthy(body.aggregation)
    THEN Reply(400, formatError400(Str("Field and aggregation are required")))
  ELSE IF ~IsValidAggregation(body.aggregation)
    THEN Reply(400, formatError400(Str("Invalid aggregation. Must be one of: "
                                         \o Join(validAggregations, ", "))))
  ELSE Undef

\* the select expression when every alias is the aggregation's own name
selectClauseOwnAlias(field, aggregation) ==
  IF aggregation = Str("count") THEN "count(*) as count"
  ELSE ToStr(aggregation) \o "(int(" \o ToStr(field) \o ")) as " \o ToStr(aggregation)

selectClause(field, aggregation) ==
  IF aggregation = Str("count") THEN "count(*) as count"
  ELSE ToStr(aggregation) \o "(int(" \o ToStr(field) \o ")) as "
         \o (IF aggregation = Str("avg") THEN "average" ELSE ToStr(aggregation))

\* one filter entry when every value is quoted
FilterClauseAlwaysQuoted(key, value) == key \o " = '" \o ToStr(value) \o "'"

\* one filter entry: a string value quoted, any other value bare
FilterClause(key, value) ==
  IF TypeOf(value) = "string" THEN key \o " = '" \o ToStr(value) \o "'"
  ELSE key \o " = " \o ToStr(value)

\* whereClause: '' unless filter has entries
StatisticsWhere(filter) ==
  IF Truthy(filter) /\ Len(filter.entries) > 0
    THEN Join([i \in 1..Len(filter.entries) |->
                 FilterClause(filter.entries[i][1], filter.entries[i][2])], " AND ")
    ELSE ""

\* params: select, and group_by and where when they are set
StatisticsParams(body) ==
  [select |-> Str(selectClause(body.field, body.aggregation))]
    @@ (IF Truthy(body.groupBy) THEN [group_by |-> body.groupBy] ELSE <<>>)
    @@ (IF Truthy(Str(StatisticsWhere(body.filter)))
          THEN [where |-> Str(StatisticsWhere(body.filter))] ELSE <<>>)

StatisticsSuccess(body, data) ==
  [success |-> TRUE,
   data |-> data,
   metadata |-> [field |-> body.field, aggregation |-> body.aggregation,
                 groupBy |-> body.groupBy, filter |-> body.filter]]

StatisticsRespond(body, out) ==
  IF out.kind = "ok" THEN Reply(200, StatisticsSuccess(body, out.data))
  ELSE CatchReply(out, "Failed to calculate statistics")

----------------------------------------------------------------------------
(* GET /schema *)

\* the path each of the five operations is registered under
Route ==
  [search |-> "/search",
   getUniversity |-> "/getUniversity",
   getUniversityByName |-> "/getUniversityByName",
   getFields |-> "/getFields",
   statistics |-> "/statistics"]

\* the static document, its descriptions left out: each endpoint with its
\* path, its method and the names of its parameters
schema ==
  [name |-> "UniversityDataMCP",
   version |-> "1.0.0",
   endpoints |->
     << [path |-> "/search", method |-> "POST",
         parameters |-> <<"query", "state", "city", "limit", "offset">>],
        [path |-> "/getFields", method |-> "GET", parameters |-> <<>>],
        [path |-> "/statistics", method |-> "POST",
         parameters |-> <<"field", "aggregation", "groupBy", "filter">>],
        [path |-> "/getUniversityByName", method |-> "GET",
         parameters |-> <<"name">>] >>]

----------------------------------------------------------------------------
(* The client library *)

\* response.ok
ResponseOk(reply) == reply.http \in 200..299

\* _request: the parsed body when the response is ok, else a thrown Error
\* with result.error?.message || 'Request failed'
ClientRequest(reply) ==
  IF ResponseOk(reply) THEN [returned |-> reply.body]
  ELSE [thrown |->
          IF "error" \in DOMAIN reply.body
            THEN OrElse(reply.body.error.message, Str("Request failed"))
            ELSE Str("Request failed")]

----------------------------------------------------------------------------
(* The life of one request: the handler runs to its reply, or to the await  *)
(* of axios.get, where it is suspended until the call settles.              *)

Init ==
  /\ pc = "idle"
  /\ op = "none"
  /\ req = Undef
  /\ outbound = <<>>
  /\ upstream = Undef
  /\ replies = <<>>

\* the handler up to its first suspension: it replies with the rejection, or
\* issues the outbound call with the given parameters
Begin(name, input, rejection, params) ==
  /\ op' = name
  /\ req' = input
  /\ IF rejection # Undef
       THEN /\ replies' = Append(replies, rejection)
            /\ pc' = "replied"
            /\ UNCHANGED outbound
       ELSE /\ outbound' = Append(outbound, AxiosParams(params))
            /\ pc' = "awaiting"
            /\ UNCHANGED replies
  /\ UNCHANGED upstream

\* the handler after the settled call when a reply is not followed by a return
SettleRepliesTwice(out, reply) ==
  /\ upstream' = out
  /\ replies' = Append(Append(replies, reply), reply)
  /\ pc' = "replied"
  /\ UNCHANGED <<op, req, outbound>>

\* the handler from the settled call to its reply
Settle(out, reply) ==
  /\ upstream' = out
  /\ replies' = Append(replies, reply)
  /\ pc' = "replied"
  /\ UNCHANGED <<op, req, outbound>>

Search ==
  /\ pc = "idle"
  /\ \E body \in SearchBodies :
       Begin("search", body, SearchRejection(SearchInputs(body)),
             SearchParams(SearchInputs(body)))

SearchSettled ==
  /\ pc = "awaiting" /\ op = "search"
  /\ \E out \in Outcomes : Settle(out, SearchRespond(req, out))

GetUniversity ==
  /\ pc = "idle"
  /\ \E id \in LookupValues :
       Begin("getUniversity", id, LookupRejection(id, "University ID is required"),
             LookupParams("objectid", id))

GetUniversitySettled ==
  /\ pc = "awaiting" /\ op = "getUniversity"
  /\ \E out \in Outcomes : Settle(out, GetUniversityRespond(out))

GetUniversityByName ==
  /\ pc = "idle"
  /\ \E name \in LookupValues :
       Begin("getUniversityByName", name,
             LookupRejection(name, "University name is required"),
             LookupParams("name", name))

GetUniversityByNameSettled ==
  /\ pc = "awaiting" /\ op = "getUniversityByName"
  /\ \E out \in Outcomes : Settle(out, GetUniversityByNameRespond(out))

GetFields ==
  /\ pc = "idle"
  /\ Begin("getFields", Undef, Undef, [limit |-> Num(1)])

GetFieldsSettled ==
  /\ pc = "awaiting" /\ op = "getFields"
  /\ \E out \in Outcomes : Settle(out, GetFieldsRespond(out))

Statistics ==
  /\ pc = "idle"
  /\ \E body \in StatisticsBodies :
       Begin("statistics", body, StatisticsRejection(body), StatisticsParams(body))

StatisticsSettled ==
  /\ pc = "awaiting" /\ op = "statistics"
  /\ \E out \in Outcomes : Settle(out, StatisticsRespond(req, out))

\* res.json(schema): no validation and no outbound call
Schema ==
  /\ pc = "idle"
  /\ op' = "schema"
  /\ req' = Undef
  /\ replies' = Append(replies, Reply(200, schema))
  /\ pc' = "replied"
  /\ UNCHANGED <<outbound, upstream>>

\* the request is over and its state is dropped; the server takes the next
NextRequest ==
  /\ pc = "replied"
  /\ pc' = "idle"
  /\ op' = "none"
  /\ req' = Undef
  /\ outbound' = <<>>
  /\ upstream' = Undef
  /\ replies' = <<>>

Next ==
  \/ Search
  \/ SearchSettled
  \/ GetUniversity
  \/ GetUniversitySettled
  \/ GetUniversityByName
  \/ GetUniversityByNameSettled
  \/ GetFields
  \/ GetFieldsSettled
  \/ Statistics
  \/ StatisticsSettled
  \/ Schema
  \/ NextRequest

Spec == Init /\ [][Next]_vars

\* axios.get returns a promise that settles, with a response or with an error,
\* and the event loop then resumes the handler that awaits it
FairSpec ==
  /\ Spec
  /\ WF_vars(SearchSettled)
  /\ WF_vars(GetUniversitySettled)
  /\ WF_vars(GetUniversityByNameSettled)
  /\ WF_vars(GetFieldsSettled)
  /\ WF_vars(StatisticsSettled)

----------------------------------------------------------------------------
(* Properties *)

\* the reply of the request, once it is sent
TheReply == replies[1]

Replied == pc = "replied" /\ Len(replies) = 1

\* the reply carries an envelope with success: false
IsFailure(r) == "success" \in DOMAIN r.body /\ r.body.success = FALSE

\* the upstream call of the request threw
UpstreamThrew == Replied /\ upstream # Undef /\ upstream.kind = "error"

\* the upstream call of the request answered with a payload
UpstreamAnswered == Replied /\ upstream # Undef /\ upstream.kind = "ok"

\* a request input that was left out or left empty
IsMissing(v) == v = Undef \/ v = Str("")

\* C1: every failure reply of every operation has an HTTP status equal to
\* the error.status of its envelope, also when the upstream call threw with
\* a response status of its own.
C1_HttpMirrorsErrorStatus ==
  \A i \in 1..Len(replies) :
    IsFailure(replies[i]) => Num(replies[i].http) = replies[i].body.error.status

\* C2: a search request whose limit is greater than 100 is answered with
\* HTTP 400 and a failure envelope, and no outbound call is ever issued for it.
C2_LimitOver100Rejected ==
  (op = "search" /\ req.limit # Undef /\ req.limit.n > 100) =>
    /\ outbound = <<>>
    /\ pc = "replied"
    /\ Len(replies) = 1
    /\ TheReply.http = 400
    /\ IsFailure(TheReply)

C2_Witness ==
  /\ op = "search"
  /\ req.limit = Num(101)
  /\ Replied
  /\ TheReply.http = 400

\* the request of a lookup or of statistics lacks a required input
C3_MissingInput ==
  \/ op \in {"getUniversity", "getUniversityByName"} /\ IsMissing(req)
  \/ op = "statistics" /\ (IsMissing(req.field) \/ IsMissing(req.aggregation))

\* the request of statistics has its inputs and an unrecognized aggregation
C3_BadAggregation ==
  /\ op = "statistics"
  /\ ~IsMissing(req.field)
  /\ ~IsMissing(req.aggregation)
  /\ req.aggregation \notin {Str("count"), Str("sum"), Str("avg"), Str("min"), Str("max")}

C4_Generic ==
  [search |-> "Failed to search universities",
   getUniversity |-> "Failed to fetch university details",
   getUniversityByName |-> "Failed to fetch university details",
   getFields |-> "Failed to fetch dataset fields",
   statistics |-> "Failed to calculate statistics"]

\* the envelope carries the upstream's status and message where the thrown
\* error has them, else 500 and the operation's generic message
C4_CarriesUpstream ==
  /\ IsFailure(TheReply)
  /\ TheReply.body.error.status =
       (IF upstream.response = Undef THEN Num(500)
        ELSE Num(upstream.response.status))
  /\ TheReply.body.error.message =
       (IF upstream.response = Undef \/ IsMissing(upstream.response.message)
          THEN Str(C4_Generic[op])
          ELSE upstream.response.message)

\* C4 as stated: when the upstream call of any of the five operations
\* throws, the envelope's status and message are the upstream response's if
\* it has them, and otherwise 500 and the operation's generic message, also
\* for lookup by id when the upstream answers 404 with its own message.
C4_UpstreamErrorCarried ==
  UpstreamThrew => C4_CarriesUpstream

\* lookup by id whose upstream call threw with a 404 response
C4_LookupById404 ==
  /\ op = "getUniversity"
  /\ upstream.response # Undef
  /\ upstream.response.status = 404

\* C4 amended: as stated, except that lookup by id answers an upstream 404
\* with status 404 and the message "University not found", whatever message
\* the upstream carried.
C4_UpstreamErrorCarriedBut404ById ==
  UpstreamThrew =>
    IF C4_LookupById404
      THEN /\ IsFailure(TheReply)
           /\ TheReply.body.error =
                [message |-> Str("University not found"), status |-> Num(404)]
      ELSE C4_CarriesUpstream

C4_Witness ==
  /\ UpstreamThrew
  /\ C4_LookupById404
  /\ upstream.response.message = Str("upstream refused")
  /\ TheReply.body.error.message = Str("University not found")

\* C5: for both lookups, an upstream answer with results missing or empty is
\* replied to with HTTP 404 and the envelope {success: false, error:
\* {message: "University not found", status: 404}}; an answer with at least
\* one record is replied to with a success envelope whose data is the first
\* record of results.
C5_LookupFoundOr404 ==
  (UpstreamAnswered /\ op \in {"getUniversity", "getUniversityByName"}) =>
    IF upstream.data.results = Undef \/ upstream.data.results.items = <<>>
      THEN TheReply =
             [http |-> 404,
              body |-> [success |-> FALSE,
                        error |-> [message |-> Str("University not found"),
                                   status |-> Num(404)]]]
      ELSE TheReply =
             [http |-> 200,
              body |-> [success |-> TRUE,
                        data |-> Head(upstream.data.results.items)]]

C5_Witness ==
  /\ UpstreamAnswered
  /\ op = "getUniversityByName"
  /\ upstream.data.results = Arr(<<>>)
  /\ TheReply.http = 404

\* the outbound call of the request, once it is issued
TheCall == outbound[1]

Issued(name) == op = name /\ Len(outbound) = 1

\* C6: the outbound query of a search that passes validation has where equal
\* to the AND-join of state = '<state>' and city = '<city>' for exactly those
\* of state and city that are non-empty, the state clause first; where is
\* absent, not an empty string, when both are empty; q is present, and equal
\* to query, exactly when query is non-empty.
C6_SearchQuery ==
  Issued("search") =>
    /\ CASE ~IsMissing(req.state) /\ ~IsMissing(req.city) ->
              /\ "where" \in DOMAIN TheCall
              /\ TheCall.where =
                   Str("state = '" \o req.state.s \o "' AND city = '" \o req.city.s \o "'")
         [] ~IsMissing(req.state) /\ IsMissing(req.city) ->
              /\ "where" \in DOMAIN TheCall
              /\ TheCall.where = Str("state = '" \o req.state.s \o "'")
         [] IsMissing(req.state) /\ ~IsMissing(req.city) ->
              /\ "where" \in DOMAIN TheCall
              /\ TheCall.where = Str("city = '" \o req.city.s \o "'")
         [] OTHER -> "where" \notin DOMAIN TheCall
    /\ IF IsMissing(req.query) THEN "q" \notin DOMAIN TheCall
       ELSE "q" \in DOMAIN TheCall /\ TheCall.q = req.query

C6_Witness ==
  /\ Issued("search")
  /\ req.state = Str("CA")
  /\ req.city = Str("Davis")
  /\ req.query = Str("tech")
  /\ TheCall.where = Str("state = 'CA' AND city = 'Davis'")
  /\ TheCall.q = Str("tech")

\* C7: the outbound select of a statistics request that passes validation is
\* 'count(*) as count' when aggregation is count, whatever field is; for sum,
\* avg, min and max it is '<aggregation>(int(<field>)) as <alias>', the alias
\* being 'average' for avg and the aggregation's name otherwise.
C7_SelectExpression ==
  Issued("statistics") =>
    /\ "select" \in DOMAIN TheCall
    /\ TheCall.select =
         Str(CASE req.aggregation = Str("count") -> "count(*) as count"
               [] req.aggregation = Str("avg") ->
                    "avg(int(" \o req.field.s \o ")) as average"
               [] OTHER ->
                    req.aggregation.s \o "(int(" \o req.field.s \o ")) as "
                      \o req.aggregation.s)

C7_Witness ==
  /\ Issued("statistics")
  /\ req.aggregation = Str("avg")
  /\ req.field = Str("population")
  /\ TheCall.select = Str("avg(int(population)) as average")

\* the literal of a filter value: a string single-quoted, a number bare
C8_Literal(v) ==
  IF v.t = "string" THEN "'" \o v.s \o "'" ELSE NumToStr(v.n)

RECURSIVE C8_AndJoin(_)
\* the clauses of the entries, joined by AND
C8_AndJoin(entries) ==
  IF Len(entries) = 1 THEN entries[1][1] \o " = " \o C8_Literal(entries[1][2])
  ELSE C8_AndJoin(SubSeq(entries, 1, Len(entries) - 1)) \o " AND "
         \o entries[Len(entries)][1] \o " = " \o C8_Literal(entries[Len(entries)][2])

\* C8: the outbound where of a statistics request that passes validation is
\* the AND-join of one '<key> = <literal>' clause per filter entry, a string
\* value single-quoted and any other value bare; where is absent when filter
\* is missing or has no entries; group_by is present, and equal to groupBy,
\* exactly when groupBy is supplied non-empty.
C8_StatisticsFilter ==
  Issued("statistics") =>
    /\ IF req.filter = Undef \/ req.filter.entries = <<>>
         THEN "where" \notin DOMAIN TheCall
         ELSE /\ "where" \in DOMAIN TheCall
              /\ TheCall.where = Str(C8_AndJoin(req.filter.entries))
    /\ IF IsMissing(req.groupBy) THEN "group_by" \notin DOMAIN TheCall
       ELSE "group_by" \in DOMAIN TheCall /\ TheCall.group_by = req.groupBy

C8_Witness ==
  /\ Issued("statistics")
  /\ req.groupBy = Str("state")
  /\ req.filter = Obj(<< <<"state", Str("CA")>>, <<"population", Num(1200)>> >>)
  /\ TheCall.where = Str("state = 'CA' AND population = 1200")
  /\ TheCall.group_by = Str("state")

\* C9: the reply to a search whose upstream call succeeds is {success: true,
\* data: the upstream payload unchanged, metadata: {total, offset, limit,
\* query_parameters}}, total being the upstream total_count, offset and limit
\* the values sent upstream (0 and 10 when the request omits them), and
\* query_parameters echoing query, state and city, each '' when omitted.
C9_SearchEnvelope ==
  (UpstreamAnswered /\ op = "search") =>
    /\ TheReply =
         [http |-> 200,
          body |->
            [success |-> TRUE,
             data |-> upstream.data,
             metadata |->
               [total |-> upstream.data.total_count,
                offset |-> IF req.offset = Undef THEN Num(0) ELSE req.offset,
                limit |-> IF req.limit = Undef THEN Num(10) ELSE req.limit,
                query_parameters |->
                  [query |-> IF req.query = Undef THEN Str("") ELSE req.query,
                   state |-> IF req.state = Undef THEN Str("") ELSE req.state,
                   city |-> IF req.city = Undef THEN Str("") ELSE req.city]]]]
    /\ TheCall.offset = TheReply.body.metadata.offset
    /\ TheCall.limit = TheReply.body.metadata.limit

C9_Witness ==
  /\ UpstreamAnswered
  /\ op = "search"
  /\ req = [query |-> Undef, state |-> Str("CA"), city |-> Undef,
            limit |-> Num(5), offset |-> Undef]
  /\ upstream.data.total_count = Num(712)
  /\ upstream.data.results # Undef
  /\ TheReply.body.metadata =
       [total |-> Num(712), offset |-> Num(0), limit |-> Num(5),
        query_parameters |->
          [query |-> Str(""), state |-> Str("CA"), city |-> Str("")]]

\* the value is a number, or a string that converts to one
C10_ParsesAsNumber(v) ==
  v.t \in {"number", "string"} /\ ToNumber(v) # NaN

\* the type by the stated priority: the name, then the numeric parse, then
\* the value's own runtime type
C10_Type(key, v) ==
  IF Includes(key, "date") \/ Includes(key, "time") THEN "date"
  ELSE IF C10_ParsesAsNumber(v) THEN "number"
  ELSE TypeOf(v)

\* C10: field discovery returns one descriptor per key of the sample record,
\* in key order, typed 'date' if the name contains 'date' or 'time' (also for
\* a numeric value), otherwise 'number' if the value parses as a number,
\* otherwise the value's own runtime type (string, boolean, ...); the
\* description is the name with every underscore replaced by a space.
C10_FieldDiscovery ==
  (UpstreamAnswered /\ op = "getFields" /\ HasResults(upstream.data)) =>
    LET sample == Head(upstream.data.results.items).entries
    IN TheReply =
         [http |-> 200,
          body |->
            [success |-> TRUE,
             data |-> Arr([i \in 1..Len(sample) |->
                             [name |-> sample[i][1],
                              type |-> C10_Type(sample[i][1], sample[i][2]),
                              description |-> ReplaceAll(sample[i][1], "_", " ")]])]]

\* C11: the document GET /schema returns enumerates every operation of the
\* service: search, lookup by id, lookup by name, field discovery and
\* statistics; no operation the server exposes is missing from it.
C11_SchemaEnumeratesOperations ==
  (op = "schema" /\ Replied) =>
    \A o \in DOMAIN Route :
      \E i \in 1..Len(TheReply.body.endpoints) :
        TheReply.body.endpoints[i].path = Route[o]

\* the request is one of the five operations
IsOperation == op \in DOMAIN Route

\* at most one outbound call and one reply; while the call is pending nothing
\* is replied; a reply follows either no call at all or the settled call
C12_OnePass ==
  IsOperation =>
    /\ Len(outbound) <= 1
    /\ Len(replies) <= 1
    /\ pc = "awaiting" => (Len(outbound) = 1 /\ replies = <<>> /\ upstream = Undef)
    /\ pc = "replied" => (Len(replies) = 1 /\ (outbound = <<>> <=> upstream = Undef))

C13_SuccessAgreesWithStatus ==
  (IsOperation /\ Replied) =>
    /\ "success" \in DOMAIN TheReply.body
    /\ TheReply.http = 200 <=> TheReply.body.success = TRUE
    /\ IsFailure(TheReply) => TheReply.http >= 400
    /\ "returned" \in DOMAIN ClientRequest(TheReply) =>
         ClientRequest(TheReply).returned.success = TRUE

C13_Witness ==
  /\ op = "getFields"
  /\ UpstreamAnswered
  /\ ~HasResults(upstream.data)
  /\ IsFailure(TheReply)
  /\ TheReply.http = 500
  /\ "thrown" \in DOMAIN ClientRequest(TheReply)

====
